---- MODULE Spec2Model ----
(***************************************************************************)
(* Model of the Semantic Scholar client library:                           *)
(*   semanticscholar/__init__.py      the API metadata loader              *)
(*   semanticscholar/SemanticScholar.py   the client and its lookups       *)
(*                                                                         *)
(* Python str values that the code slices, joins or converts are tuples    *)
(* of one-character strings; opaque str values (URLs, ids, keys, messages) *)
(* are TLA+ strings.  A Python dict is a set of <<key, value>> pairs with  *)
(* distinct keys; a dict whose insertion order matters (the parsed         *)
(* description document) is a sequence of such pairs.                      *)
(***************************************************************************)
EXTENDS Integers, Sequences, FiniteSets, TLC

VARIABLES
    load_state,       \* "unloaded" | "loaded" | "failed": import of the package
    API_definitions,  \* __init__.py:11, sequence of <<name, schema>>
    paper_fields,     \* __init__.py:12
    author_fields,    \* __init__.py:13
    API_errors,       \* __init__.py:14, dict: stripped name -> schema
    cls_auth_header,  \* SemanticScholar.auth_header, the class attribute
    client,           \* client id -> instance attributes
    call              \* thread id -> the lookup that thread is running

vars == <<load_state, API_definitions, paper_fields, author_fields,
          API_errors, cls_auth_header, client, call>>

None == "None"

(***************************************************************************)
(* Bounds of the model.                                                    *)
(***************************************************************************)
MaxFields == 2      \* longest fields list a caller passes
MaxDefs == 3        \* most definitions in a description document (loader)
MaxList == 1        \* longest JSON list in a response body

(***************************************************************************)
(* Python dict helpers (set of <<key, value>> pairs).                      *)
(***************************************************************************)
Keys(d) == {p[1] : p \in d}

HasKey(d, k) == \E p \in d : p[1] = k

Get(d, k) == (CHOOSE p \in d : p[1] = k)[2]

\* d[k] = v : replaces the entry of k when there is one
Put(d, k, v) == {p \in d : p[1] # k} \cup {<<k, v>>}

(***************************************************************************)
(* Python str helpers on tuples of characters.                             *)
(***************************************************************************)
\* s[:n]
Prefix(s, n) == SubSeq(s, 1, IF Len(s) < n THEN Len(s) ELSE n)

\* s[n:]
Suffix(s, n) == SubSeq(s, n + 1, Len(s))

\* sub in s, for str
IsSubstr(sub, s) ==
    \E i \in 0..(Len(s) - Len(sub)) : SubSeq(s, i + 1, i + Len(sub)) = sub

Digits == <<"0", "1", "2", "3", "4", "5", "6", "7", "8", "9">>

\* str(n) of a non-negative int
RECURSIVE str(_)
str(n) == IF n < 10 THEN <<Digits[n + 1]>>
          ELSE str(n \div 10) \o <<Digits[(n % 10) + 1]>>

\* sep.join(parts)
RECURSIVE join(_, _)
join(sep, parts) ==
    IF parts = <<>> THEN <<>>
    ELSE IF Len(parts) = 1 THEN parts[1]
    ELSE parts[1] \o sep \o join(sep, Tail(parts))

(***************************************************************************)
(* The bundled description document (swagger.json) as parsed by json.load. *)
(***************************************************************************)
n_FullPaper == <<"F", "u", "l", "l", "P", "a", "p", "e", "r">>
n_Author == <<"A", "u", "t", "h", "o", "r">>
n_ErrorNotFound == <<"E", "r", "r", "o", "r", "N", "o", "t", "F", "o", "u", "n", "d">>
n_ErrorForbidden == <<"E", "r", "r", "o", "r", "F", "o", "r", "b", "i", "d", "d", "e", "n">>
n_Error404 == <<"E", "r", "r", "o", "r", "4", "0", "4">>
n_Error400 == <<"E", "r", "r", "o", "r", "4", "0", "0">>
n_Error_404 == <<"E", "r", "r", "o", "r", "_", "4", "0", "4">>
n_Error_403 == <<"E", "r", "r", "o", "r", "_", "4", "0", "3">>
n_ErrorX404 == <<"E", "r", "r", "o", "r", "X", "4", "0", "4">>
n_Error == <<"E", "r", "r", "o", "r">>

f_title == <<"t", "i", "t", "l", "e">>
f_year == <<"y", "e", "a", "r">>
f_name == <<"n", "a", "m", "e">>
f_error == <<"e", "r", "r", "o", "r">>

\* schema definitions: a dict with a 'properties' entry
s_paper == {<<"properties", {f_title, f_year}>>}
s_author == {<<"properties", {f_name}>>}
s_errA == {<<"properties", {f_error}>>, <<"type", "object">>}
s_errB == {<<"properties", {f_error}>>}

\* the documents the client specification loads
MainDocs ==
    { <<<<n_FullPaper, s_paper>>, <<n_Author, s_author>>,
        <<n_Error404, s_errA>>, <<n_Error400, s_errB>>>>,
      <<<<n_FullPaper, s_paper>>, <<n_Author, s_author>>,
        <<n_Error_404, s_errA>>, <<n_Error_403, s_errB>>>>,
      <<<<n_Author, s_author>>, <<n_Error404, s_errA>>>> }

\* the documents the loader specification enumerates
NamePool == {n_FullPaper, n_Author, n_ErrorNotFound, n_ErrorForbidden,
             n_Error404, n_Error_404, n_ErrorX404, n_Error}

ErrSchemas == {s_errA, s_errB}

SchemasOf(name) == IF name = n_FullPaper THEN {s_paper}
                   ELSE IF name = n_Author THEN {s_author}
                   ELSE ErrSchemas

LoaderDocs ==
    UNION { { d \in [1..n -> NamePool \X (ErrSchemas \cup {s_paper, s_author})] :
                /\ \A i \in 1..n : d[i][2] \in SchemasOf(d[i][1])
                /\ \A i, j \in 1..n : d[i][1] = d[j][1] => i = j }
            : n \in 0..MaxDefs }

\* API_definitions[name], API_definitions being a sequence of pairs
HasDef(defs, name) == \E i \in 1..Len(defs) : defs[i][1] = name

DefOf(defs, name) == defs[CHOOSE i \in 1..Len(defs) : defs[i][1] = name][2]

(***************************************************************************)
(* __init__.py:14                                                          *)
(*   {key[6:] : API_definitions[key]                                       *)
(*        for key in API_definitions.keys() if key[:5] == "Error"}         *)
(* A dict comprehension inserts in iteration order; a later key replaces   *)
(* an earlier equal one.                                                   *)
(***************************************************************************)
ErrorPrefix == <<"E", "r", "r", "o", "r">>

error_key(key) == Suffix(key, 6)

is_error_name(key) == Prefix(key, 5) = ErrorPrefix

RECURSIVE build_errors(_, _, _)
build_errors(defs, i, acc) ==
    IF i > Len(defs) THEN acc
    ELSE build_errors(defs, i + 1,
            IF is_error_name(defs[i][1])
            THEN Put(acc, error_key(defs[i][1]), DefOf(defs, defs[i][1]))
            ELSE acc)

\* import semanticscholar: __init__.py:8-14
load(doc) ==
    /\ load_state = "unloaded"
    /\ IF HasDef(doc, n_FullPaper) /\ HasDef(doc, n_Author)
       THEN /\ load_state' = "loaded"
            /\ API_definitions' = doc
            /\ paper_fields' = Get(DefOf(doc, n_FullPaper), "properties")
            /\ author_fields' = Get(DefOf(doc, n_Author), "properties")
            /\ API_errors' = build_errors(doc, 1, {})
       ELSE \* KeyError at line 12 or 13: the import fails
            /\ load_state' = "failed"
            /\ API_definitions' = doc
            /\ paper_fields' = IF HasDef(doc, n_FullPaper)
                               THEN Get(DefOf(doc, n_FullPaper), "properties")
                               ELSE {}
            /\ UNCHANGED <<author_fields, API_errors>>
    /\ UNCHANGED <<cls_auth_header, client, call>>

(***************************************************************************)
(* SemanticScholar.py:13-53, the client class and its constructor.         *)
(***************************************************************************)
DEFAULT_API_URL == "https://api.semanticscholar.org/v1"
GRAPH_API_URL == "https://api.semanticscholar.org/graph/v1"
DEFAULT_PARTNER_API_URL == "https://partner.semanticscholar.org/v1"
GRAPH_PARTNER_API_URL == "https://partner.semanticscholar.org/graph/v1"

DefaultTimeout == 2

Clients == {"c1", "c2"}
Threads == {"t1", "t2"}

\* the clients and threads the single-lookup specification uses
MainClients == {"c1"}
MainThreads == {"t1"}

\* constructor arguments
OverrideUrls == {None, "", "http://localhost:8080"}
ApiKeys == {None, "", "key-A"}
Timeouts == {DefaultTimeout}

\* Python truth value of an optional str argument: None and '' are false
Truthy(x) == x # None /\ x # ""

\* an object on which __init__ has not run: no instance attribute is set
NoClient == [constructed |-> FALSE, api_url |-> "", own_auth_header |-> FALSE,
             auth_header |-> {}, timeout |-> 0,
             args |-> [timeout |-> 0, graph_api |-> FALSE,
                       api_key |-> None, api_url |-> None]]

\* variant: line 47's "if not api_url" is missing, the key overrides the override
init_api_url_key_wins(graph_api, api_key, api_url) ==
    IF Truthy(api_key)
    THEN (IF graph_api THEN GRAPH_PARTNER_API_URL ELSE DEFAULT_PARTNER_API_URL)
    ELSE IF Truthy(api_url) THEN api_url
    ELSE IF graph_api THEN GRAPH_API_URL
    ELSE DEFAULT_API_URL

\* lines 37-51: the value self.api_url ends with
init_api_url(graph_api, api_key, api_url) ==
    LET first == IF Truthy(api_url) THEN api_url
                 ELSE IF graph_api THEN GRAPH_API_URL
                 ELSE DEFAULT_API_URL
    IN  IF Truthy(api_key) /\ ~Truthy(api_url)
        THEN (IF graph_api THEN GRAPH_PARTNER_API_URL
              ELSE DEFAULT_PARTNER_API_URL)
        ELSE first

\* lines 45-46: whether the instance attribute auth_header is assigned
init_sets_auth_header(api_key) == Truthy(api_key)

\* variant: line 46 stores the key into the dict the class attribute holds
\* (self.auth_header['x-api-key'] = api_key) instead of assigning a new dict
Construct_shared_header(c, timeout, graph_api, api_key, api_url) ==
    /\ load_state = "loaded"
    /\ ~client[c].constructed
    /\ client' = [client EXCEPT ![c] =
          [constructed |-> TRUE,
           api_url |-> init_api_url(graph_api, api_key, api_url),
           own_auth_header |-> FALSE,
           auth_header |-> {},
           timeout |-> timeout,
           args |-> [timeout |-> timeout, graph_api |-> graph_api,
                     api_key |-> api_key, api_url |-> api_url]]]
    /\ cls_auth_header' = IF init_sets_auth_header(api_key)
                          THEN Put(cls_auth_header, "x-api-key", api_key)
                          ELSE cls_auth_header
    /\ UNCHANGED <<load_state, API_definitions, paper_fields, author_fields,
                   API_errors, call>>

\* SemanticScholar(timeout, graph_api, api_key, api_url)
Construct(c, timeout, graph_api, api_key, api_url) ==
    /\ load_state = "loaded"
    /\ ~client[c].constructed
    /\ client' = [client EXCEPT ![c] =
          [constructed |-> TRUE,
           api_url |-> init_api_url(graph_api, api_key, api_url),
           own_auth_header |-> init_sets_auth_header(api_key),
           auth_header |-> IF init_sets_auth_header(api_key)
                           THEN {<<"x-api-key", api_key>>} ELSE {},
           timeout |-> timeout,
           args |-> [timeout |-> timeout, graph_api |-> graph_api,
                     api_key |-> api_key, api_url |-> api_url]]]
    /\ UNCHANGED <<load_state, API_definitions, paper_fields, author_fields,
                   API_errors, cls_auth_header, call>>

\* variant: the request reads the class attribute SemanticScholar.auth_header
class_auth_header(c) == cls_auth_header

\* self.auth_header: the instance attribute when set, else the class attribute
self_auth_header(c) ==
    IF client[c].own_auth_header THEN client[c].auth_header
    ELSE cls_auth_header

(***************************************************************************)
(* JSON values as r.json() returns them, and HTTP responses.               *)
(***************************************************************************)
JDict(d) == [kind |-> "dict", d |-> d, l |-> <<>>]
JList(l) == [kind |-> "list", d |-> {}, l |-> l]
JStr(s) == [kind |-> "str", d |-> {}, l |-> s]
JNum == [kind |-> "num", d |-> {}, l |-> <<>>]
JNull == [kind |-> "null", d |-> {}, l |-> <<>>]
\* a body that is not JSON: r.json() raises
NotJson == [kind |-> "invalid", d |-> {}, l |-> <<>>]

EmptyRecord == JDict({})

BodyKeys == {"error", "title"}
BodyVals == {"Paper not found", "x"}
ListElems == {"error", "x"}

DictBodies ==
    UNION { {JDict({<<k, f[k]>> : k \in K}) : f \in [K -> BodyVals]}
            : K \in SUBSET BodyKeys }

ListBodies ==
    {JList(l) : l \in UNION {[1..n -> ListElems] : n \in 0..MaxList}}

StrBodies == {JStr(<<>>), JStr(<<"e">>), JStr(f_error)}

\* every body a 200 or an error-status response carries in the model
Bodies == DictBodies \cup ListBodies \cup StrBodies \cup {JNum, JNull, NotJson}

\* bodies of the responses whose body the code never reads
PlainBodies == {JDict({<<"error", "x">>}), NotJson}

\* what requests.get produces: a response, or an exception of the network layer
Response(status, body) == [kind |-> "response", status |-> status, body |-> body]
NetFailure(exc) == [kind |-> exc, status |-> 0, body |-> NotJson]
NoResp == [kind |-> "none", status |-> 0, body |-> NotJson]

NetResults ==
    {Response(st, b) : st \in {200, 404}, b \in Bodies}
    \cup {Response(st, b) : st \in {403, 429, 500}, b \in PlainBodies}
    \cup {NetFailure("Timeout"), NetFailure("ConnectionError")}

(***************************************************************************)
(* Outcome of a call: a returned value or a raised exception.              *)
(***************************************************************************)
Return(data) == [kind |-> "return", data |-> data, exc |-> "", msg |-> ""]
Raise(exc, msg) == [kind |-> "raise", data |-> JNull, exc |-> exc, msg |-> msg]
NoOutcome == [kind |-> "none", data |-> JNull, exc |-> "", msg |-> ""]

\* len(data): TypeError for a value without a length
has_len(data) == data.kind \in {"dict", "list", "str"}

py_len(data) == IF data.kind = "dict" THEN Cardinality(data.d) ELSE Len(data.l)

\* 'error' in data: key of a dict, element of a list, substring of a str
error_in(data) ==
    IF data.kind = "dict" THEN HasKey(data.d, "error")
    ELSE IF data.kind = "list" THEN \E i \in 1..Len(data.l) : data.l[i] = "error"
    ELSE IsSubstr(f_error, data.l)

\* variant: the length test is dropped in favour of "more than one entry"
is_not_found_long(data) == py_len(data) > 1 /\ error_in(data)

\* line 123: len(data) == 1 and 'error' in data
is_not_found(data) == py_len(data) = 1 /\ error_in(data)

\* lines 121-124
on_200(body) ==
    IF body.kind = "invalid" THEN Raise("JSONDecodeError", "")
    ELSE IF ~has_len(body) THEN Raise("TypeError", "")
    ELSE IF is_not_found(body) THEN Return(EmptyRecord)
    ELSE Return(body)

\* line 129: str(r.status_code) in API_errors.keys()
is_api_error(status, errors) == str(status) \in Keys(errors)

\* variant: the exception carries a fixed text instead of the body's field
on_api_error_fixed_text(body) ==
    IF body.kind = "invalid" THEN Raise("JSONDecodeError", "")
    ELSE Raise("SemanticScholarError", "API error")

\* line 130: raise SemanticScholarError(r.json()['error'])
on_api_error(body) ==
    IF body.kind = "invalid" THEN Raise("JSONDecodeError", "")
    ELSE IF body.kind # "dict" THEN Raise("TypeError", "")
    ELSE IF ~HasKey(body.d, "error") THEN Raise("KeyError", "error")
    ELSE Raise("SemanticScholarError", Get(body.d, "error"))

\* variant: a status that no branch handles raises instead of falling through
interpret_raises_unhandled(resp, errors) ==
    IF resp.kind # "response" THEN Raise(resp.kind, "")
    ELSE IF resp.status = 200 THEN on_200(resp.body)
    ELSE IF resp.status = 403
         THEN Raise("PermissionError", "HTTP status 403 Forbidden.")
    ELSE IF resp.status = 429
         THEN Raise("ConnectionRefusedError", "HTTP status 429 Too Many Requests.")
    ELSE IF is_api_error(resp.status, errors) THEN on_api_error(resp.body)
    ELSE Raise("HTTPError", "")

\* lines 121-132: what one run of the function body does with the response
interpret(resp, errors) ==
    IF resp.kind # "response" THEN Raise(resp.kind, "")
    ELSE IF resp.status = 200 THEN on_200(resp.body)
    ELSE IF resp.status = 403
         THEN Raise("PermissionError", "HTTP status 403 Forbidden.")
    ELSE IF resp.status = 429
         THEN Raise("ConnectionRefusedError", "HTTP status 429 Too Many Requests.")
    ELSE IF is_api_error(resp.status, errors) THEN on_api_error(resp.body)
    ELSE Return(EmptyRecord)

(***************************************************************************)
(* lines 113-119: the request of one attempt.                              *)
(***************************************************************************)
NoReq == [url |-> "", params |-> {}, headers |-> {}, timeout |-> 0]

\* line 113
format_url(api_url, method, id) == api_url \o "/" \o method \o "/" \o id

\* variant: line 117's test is missing, fields is always sent
payload_always_fields(fields, include_unknown_refs) ==
    LET p1 == IF include_unknown_refs
              THEN {<<"include_unknown_references", <<"t", "r", "u", "e">>>>}
              ELSE {}
    IN  Put(p1, "fields", join(<<",">>, fields))

\* lines 114-118
payload(fields, include_unknown_refs) ==
    LET p1 == IF include_unknown_refs
              THEN {<<"include_unknown_references", <<"t", "r", "u", "e">>>>}
              ELSE {}
    IN  IF fields # <<>> THEN Put(p1, "fields", join(<<",">>, fields)) ELSE p1

\* line 119
request(c, method, id, fields, include_unknown_refs) ==
    [url |-> format_url(client[c].api_url, method, id),
     params |-> payload(fields, include_unknown_refs),
     headers |-> self_auth_header(c),
     timeout |-> client[c].timeout]

(***************************************************************************)
(* lines 85-89: the tenacity decorator around __get_data.                  *)
(*   wait=wait_fixed(30)                                                   *)
(*   retry=retry_if_exception_type(ConnectionRefusedError)                 *)
(*   stop=stop_after_attempt(10)                                           *)
(* No reraise option is given: when the stop condition holds after a       *)
(* retried failure, tenacity raises RetryError chained to that failure.    *)
(***************************************************************************)
MaxAttempts == 10
WaitSeconds == 30

\* variant: failures of the network layer are retried as well
retry_if_connection_failure(outcome) ==
    /\ outcome.kind = "raise"
    /\ outcome.exc \in {"ConnectionRefusedError", "ConnectionError", "Timeout"}

\* variant: every raised exception is retried
retry_if_any_exception(outcome) == outcome.kind = "raise"

retry_if_exception_type(outcome) ==
    outcome.kind = "raise" /\ outcome.exc = "ConnectionRefusedError"

\* variant: the stop condition is off by one
stop_after_attempt_late(attempt_number) == attempt_number > MaxAttempts

stop_after_attempt(attempt_number) == attempt_number >= MaxAttempts

\* variant: the wait grows with the attempt number
wait_growing(attempt_number) == WaitSeconds * attempt_number

wait_fixed(attempt_number) == WaitSeconds

(***************************************************************************)
(* The lookups: paper(), author() and the decorated __get_data.            *)
(***************************************************************************)
Ids == {"arXiv:1705.10311"}
FieldNames == {f_title, f_year}
FieldLists == UNION {[1..n -> FieldNames] : n \in 0..MaxFields}
method_types == {"paper", "author"}

IdleCall == [pc |-> "idle", api |-> "", client |-> "", method |-> "", id |-> "",
             fields |-> <<>>, include_unknown_refs |-> FALSE,
             attempt_number |-> 0, nreq |-> 0, n429 |-> 0, nwait |-> 0,
             slept |-> 0,
             req |-> NoReq, resp |-> NoResp, outcome |-> NoOutcome]

\* the invocation record on entering the decorated function: tenacity starts
\* at attempt 1
enter_get_data(c, api, method, id, fields, include_unknown_refs) ==
    [IdleCall EXCEPT !.pc = "attempt", !.api = api, !.client = c,
                     !.method = method, !.id = id, !.fields = fields,
                     !.include_unknown_refs = include_unknown_refs,
                     !.attempt_number = 1]

\* lines 55-70
paper(t, c, id, fields, include_unknown_refs) ==
    /\ call[t].pc = "idle"
    /\ client[c].constructed
    /\ call' = [call EXCEPT ![t] =
          enter_get_data(c, "paper", "paper", id, fields, include_unknown_refs)]
    /\ UNCHANGED <<load_state, API_definitions, paper_fields, author_fields,
                   API_errors, cls_auth_header, client>>

\* variant: author() forwards True for include_unknown_refs
author_includes_unknown(t, c, id, fields) ==
    /\ call[t].pc = "idle"
    /\ client[c].constructed
    /\ call' = [call EXCEPT ![t] =
          enter_get_data(c, "author", "author", id, fields, TRUE)]
    /\ UNCHANGED <<load_state, API_definitions, paper_fields, author_fields,
                   API_errors, cls_auth_header, client>>

\* lines 72-83
author(t, c, id, fields) ==
    /\ call[t].pc = "idle"
    /\ client[c].constructed
    /\ call' = [call EXCEPT ![t] =
          enter_get_data(c, "author", "author", id, fields, FALSE)]
    /\ UNCHANGED <<load_state, API_definitions, paper_fields, author_fields,
                   API_errors, cls_auth_header, client>>

\* variant: once an attempt has been retried, every failure surfaces as
\* RetryError
after_attempt_wraps(outcome, n) ==
    IF retry_if_exception_type(outcome)
    THEN IF stop_after_attempt(n)
         THEN [pc |-> "done", outcome |-> Raise("RetryError", outcome.exc)]
         ELSE [pc |-> "sleep", outcome |-> NoOutcome]
    ELSE IF outcome.kind = "raise" /\ n > 1
         THEN [pc |-> "done", outcome |-> Raise("RetryError", outcome.exc)]
    ELSE [pc |-> "done", outcome |-> outcome]

\* a direct call of the decorated primitive, self.__get_data(method, id,
\* fields, include_unknown_refs), with any method selector
get_data_call(t, c, method, id, fields, include_unknown_refs) ==
    /\ call[t].pc = "idle"
    /\ client[c].constructed
    /\ call' = [call EXCEPT ![t] =
          enter_get_data(c, "__get_data", method, id, fields,
                         include_unknown_refs)]
    /\ UNCHANGED <<load_state, API_definitions, paper_fields, author_fields,
                   API_errors, cls_auth_header, client>>

\* what the decorator does with the outcome of attempt number n
after_attempt(outcome, n) ==
    IF retry_if_exception_type(outcome)
    THEN IF stop_after_attempt(n)
         THEN [pc |-> "done", outcome |-> Raise("RetryError", outcome.exc)]
         ELSE [pc |-> "sleep", outcome |-> NoOutcome]
    ELSE [pc |-> "done", outcome |-> outcome]

\* variant: a rate-limited attempt raises the client's timeout for the next one
get_data_adapts_timeout(t, net) ==
    /\ call[t].pc = "attempt"
    /\ LET k == call[t]
           valid == k.method \in method_types
           req == request(k.client, k.method, k.id, k.fields,
                          k.include_unknown_refs)
           out == IF valid THEN interpret(net, API_errors)
                  ELSE Raise("ValueError", "Invalid method type.")
           dec == after_attempt(out, k.attempt_number)
       IN  call' = [call EXCEPT ![t] =
              [k EXCEPT !.pc = dec.pc,
                        !.outcome = dec.outcome,
                        !.nreq = IF valid THEN k.nreq + 1 ELSE k.nreq,
                        !.n429 = IF valid /\ net.kind = "response"
                                    /\ net.status = 429
                                 THEN k.n429 + 1 ELSE k.n429,
                        !.req = IF valid THEN req ELSE k.req,
                        !.resp = IF valid THEN net ELSE k.resp]]
    /\ client' = IF net.kind = "response" /\ net.status = 429
                 THEN [client EXCEPT ![call[t].client].timeout = @ + 1]
                 ELSE client
    /\ UNCHANGED <<load_state, API_definitions, paper_fields, author_fields,
                   API_errors, cls_auth_header>>

\* variant: the method selector is validated after the request was sent
get_data_checks_late(t, net) ==
    /\ call[t].pc = "attempt"
    /\ LET k == call[t]
           valid == k.method \in method_types
           req == request(k.client, k.method, k.id, k.fields,
                          k.include_unknown_refs)
           out == IF valid THEN interpret(net, API_errors)
                  ELSE Raise("ValueError", "Invalid method type.")
           dec == after_attempt(out, k.attempt_number)
       IN  call' = [call EXCEPT ![t] =
              [k EXCEPT !.pc = dec.pc,
                        !.outcome = dec.outcome,
                        !.nreq = k.nreq + 1,
                        !.n429 = IF valid /\ net.kind = "response"
                                    /\ net.status = 429
                                 THEN k.n429 + 1 ELSE k.n429,
                        !.req = req,
                        !.resp = net]]
    /\ UNCHANGED <<load_state, API_definitions, paper_fields, author_fields,
                   API_errors, cls_auth_header, client>>

\* lines 106-132: one attempt, and the decorator's decision on its outcome
get_data(t, net) ==
    /\ call[t].pc = "attempt"
    /\ LET k == call[t]
           valid == k.method \in method_types
           req == request(k.client, k.method, k.id, k.fields,
                          k.include_unknown_refs)
           out == IF valid THEN interpret(net, API_errors)
                  ELSE Raise("ValueError", "Invalid method type.")
           dec == after_attempt(out, k.attempt_number)
       IN  call' = [call EXCEPT ![t] =
              [k EXCEPT !.pc = dec.pc,
                        !.outcome = dec.outcome,
                        !.nreq = IF valid THEN k.nreq + 1 ELSE k.nreq,
                        !.n429 = IF valid /\ net.kind = "response"
                                    /\ net.status = 429
                                 THEN k.n429 + 1 ELSE k.n429,
                        !.req = IF valid THEN req ELSE k.req,
                        !.resp = IF valid THEN net ELSE k.resp]]
    /\ UNCHANGED <<load_state, API_definitions, paper_fields, author_fields,
                   API_errors, cls_auth_header, client>>

\* variant: the attempt counter belongs to the decorated function, not to the
\* invocation: a wait advances it for every lookup that is running
retry_sleep_shared(t) ==
    /\ call[t].pc = "sleep"
    /\ call' = [u \in Threads |->
          IF u = t
          THEN [call[u] EXCEPT !.pc = "attempt",
                               !.nwait = @ + 1,
                               !.slept = @ + wait_fixed(call[t].attempt_number),
                               !.attempt_number = @ + 1]
          ELSE IF call[u].pc \in {"attempt", "sleep"}
          THEN [call[u] EXCEPT !.attempt_number = @ + 1]
          ELSE call[u]]
    /\ UNCHANGED <<load_state, API_definitions, paper_fields, author_fields,
                   API_errors, cls_auth_header, client>>

\* the decorator sleeps, then starts the next attempt
retry_sleep(t) ==
    /\ call[t].pc = "sleep"
    /\ call' = [call EXCEPT ![t] =
          [@ EXCEPT !.pc = "attempt",
                    !.nwait = @ + 1,
                    !.slept = @ + wait_fixed(call[t].attempt_number),
                    !.attempt_number = @ + 1]]
    /\ UNCHANGED <<load_state, API_definitions, paper_fields, author_fields,
                   API_errors, cls_auth_header, client>>

\* the caller receives the result or the exception; the thread is free again
finish(t) ==
    /\ call[t].pc = "done"
    /\ call' = [call EXCEPT ![t] = IdleCall]
    /\ UNCHANGED <<load_state, API_definitions, paper_fields, author_fields,
                   API_errors, cls_auth_header, client>>

(***************************************************************************)
(* Specification of one client serving one lookup at a time.               *)
(***************************************************************************)
Init ==
    /\ load_state = "unloaded"
    /\ API_definitions = <<>>
    /\ paper_fields = {}
    /\ author_fields = {}
    /\ API_errors = {}
    /\ cls_auth_header = {}
    /\ client = [c \in Clients |-> NoClient]
    /\ call = [t \in Threads |-> IdleCall]

Next ==
    \/ \E doc \in MainDocs : load(doc)
    \/ \E c \in MainClients, timeout \in Timeouts, graph_api \in BOOLEAN,
          api_key \in ApiKeys, api_url \in OverrideUrls :
          Construct(c, timeout, graph_api, api_key, api_url)
    \/ \E t \in MainThreads, c \in MainClients, id \in Ids,
          fields \in FieldLists, include_unknown_refs \in BOOLEAN :
          paper(t, c, id, fields, include_unknown_refs)
    \/ \E t \in MainThreads, c \in MainClients, id \in Ids,
          fields \in FieldLists :
          author(t, c, id, fields)
    \/ \E t \in MainThreads, net \in NetResults : get_data(t, net)
    \/ \E t \in MainThreads : retry_sleep(t)
    \/ \E t \in MainThreads : finish(t)

Spec == Init /\ [][Next]_vars

(***************************************************************************)
(* Specification of the retry loop under fair scheduling.  A lookup is a   *)
(* blocking call on its caller's thread: requests.get returns or raises    *)
(* within the timeout and time.sleep returns, so a started attempt and a   *)
(* started wait both complete.  The constructor takes no override URL and  *)
(* the callers pass at most one field here.                                *)
(***************************************************************************)
ShortFieldLists == {<<>>} \cup {<<f>> : f \in FieldNames}

NextRetry ==
    \/ \E doc \in MainDocs : load(doc)
    \/ \E c \in MainClients, timeout \in Timeouts, graph_api \in BOOLEAN,
          api_key \in ApiKeys :
          Construct(c, timeout, graph_api, api_key, None)
    \/ \E t \in MainThreads, c \in MainClients, id \in Ids,
          fields \in ShortFieldLists, include_unknown_refs \in BOOLEAN :
          paper(t, c, id, fields, include_unknown_refs)
    \/ \E t \in MainThreads, c \in MainClients, id \in Ids,
          fields \in ShortFieldLists :
          author(t, c, id, fields)
    \/ \E t \in MainThreads, net \in NetResults : get_data(t, net)
    \/ \E t \in MainThreads : retry_sleep(t)
    \/ \E t \in MainThreads : finish(t)

Fairness ==
    \A t \in MainThreads :
        /\ WF_vars(\E net \in NetResults : get_data(t, net))
        /\ WF_vars(retry_sleep(t))

RetrySpec == Init /\ [][NextRetry]_vars /\ Fairness

(***************************************************************************)
(* Specification of two clients, constructed at any time around the        *)
(* lookups of one caller.  The lookups take no fields here and the network *)
(* gives one result of each kind.                                          *)
(***************************************************************************)
TwoKeys == {None, "key-A", "key-B"}

FewNetResults ==
    {Response(200, JDict({<<"title", "x">>})), Response(403, NotJson),
     Response(429, NotJson), NetFailure("Timeout")}

NextClients ==
    \/ \E doc \in MainDocs : load(doc)
    \/ \E c \in Clients, timeout \in Timeouts, graph_api \in BOOLEAN,
          api_key \in TwoKeys :
          Construct(c, timeout, graph_api, api_key, None)
    \/ \E t \in MainThreads, c \in Clients, id \in Ids,
          include_unknown_refs \in BOOLEAN :
          paper(t, c, id, <<>>, include_unknown_refs)
    \/ \E t \in MainThreads, c \in Clients, id \in Ids :
          author(t, c, id, <<>>)
    \/ \E t \in MainThreads, net \in FewNetResults : get_data(t, net)
    \/ \E t \in MainThreads : retry_sleep(t)
    \/ \E t \in MainThreads : finish(t)

SpecClients == Init /\ [][NextClients]_vars

(***************************************************************************)
(* Specification of two callers whose lookups on one client interleave.    *)
(***************************************************************************)
NextThreads ==
    \/ \E doc \in MainDocs : load(doc)
    \/ \E c \in MainClients, timeout \in Timeouts, graph_api \in BOOLEAN,
          api_key \in {None, "key-A"} :
          Construct(c, timeout, graph_api, api_key, None)
    \/ \E t \in Threads, c \in MainClients, id \in Ids,
          include_unknown_refs \in BOOLEAN :
          paper(t, c, id, <<>>, include_unknown_refs)
    \/ \E t \in Threads, c \in MainClients, id \in Ids :
          author(t, c, id, <<>>)
    \/ \E t \in Threads, net \in FewNetResults : get_data(t, net)
    \/ \E t \in Threads : retry_sleep(t)
    \/ \E t \in Threads : finish(t)

SpecThreads == Init /\ [][NextThreads]_vars

(***************************************************************************)
(* Specification of the lookup primitive called directly, with recognized  *)
(* and unrecognized method selectors.                                      *)
(***************************************************************************)
MethodSelectors == method_types \cup {"journal", ""}

NextPrimitive ==
    \/ \E doc \in MainDocs : load(doc)
    \/ \E c \in MainClients, timeout \in Timeouts, graph_api \in BOOLEAN,
          api_key \in {None, "key-A"} :
          Construct(c, timeout, graph_api, api_key, None)
    \/ \E t \in MainThreads, c \in MainClients, method \in MethodSelectors,
          id \in Ids, fields \in ShortFieldLists,
          include_unknown_refs \in BOOLEAN :
          get_data_call(t, c, method, id, fields, include_unknown_refs)
    \/ \E t \in MainThreads, net \in FewNetResults : get_data(t, net)
    \/ \E t \in MainThreads : retry_sleep(t)
    \/ \E t \in MainThreads : finish(t)

SpecPrimitive == Init /\ [][NextPrimitive]_vars

(***************************************************************************)
(* Specification of the metadata loader over every bounded document.       *)
(***************************************************************************)
NextLoader == \E doc \in LoaderDocs : load(doc)

SpecLoader == Init /\ [][NextLoader]_vars

(***************************************************************************)
(* Properties.                                                             *)
(***************************************************************************)
Is429(resp) == resp.kind = "response" /\ resp.status = 429
Is403(resp) == resp.kind = "response" /\ resp.status = 403
Is200(resp) == resp.kind = "response" /\ resp.status = 200

\* the lookup of thread t has sent at least one request
Sent(t) == call[t].nreq >= 1

\* The safety part of C1: under persistent 429 responses a lookup sends
\* exactly 10 requests and then ends with a rate-limit failure (tenacity's
\* RetryError chained to the ConnectionRefusedError of the last attempt);
\* while it is still retrying every response so far was a 429 and fewer than
\* 10 requests were sent; no lookup ever sends an 11th request.
C1_RateLimitExhausted ==
    \A t \in Threads :
        LET k == call[t]
        IN  /\ k.nreq <= 10
            /\ k.attempt_number <= 10
            /\ k.pc = "sleep" => Is429(k.resp) /\ k.nreq = k.attempt_number
                                 /\ k.nreq < 10
            /\ k.pc = "attempt" => k.nreq = k.attempt_number - 1
                                   /\ (k.nreq > 0 => Is429(k.resp))
            /\ (k.pc = "done" /\ Is429(k.resp)) =>
                   /\ k.nreq = 10
                   /\ k.outcome = Raise("RetryError", "ConnectionRefusedError")

\* every lookup that has started ends, with a result or an exception
LookupEnds ==
    \A t \in MainThreads :
        (call[t].pc \in {"attempt", "sleep"}) ~> (call[t].pc = "done")

\* C1: under persistent 429 responses a lookup sends exactly 10 requests and
\* then ends with a rate-limit failure, never sends an 11th request, and
\* never retries forever: the safety part holds in every state and every
\* started lookup ends.
C1_RateLimitTerminates == []C1_RateLimitExhausted /\ LookupEnds

C1_Witness ==
    \E t \in Threads :
        /\ call[t].pc = "done"
        /\ Is429(call[t].resp)
        /\ call[t].nreq = 10
        /\ call[t].outcome.exc = "RetryError"

\* C2: a 403 response ends the lookup with PermissionError: the lookup is
\* done, no wait and no request follows the 403 (the requests sent are the
\* earlier 429 attempts, one wait each, plus the one answered 403), so a 403
\* as first response means exactly one request.
C2_ForbiddenNotRetried ==
    \A t \in Threads :
        LET k == call[t]
        IN  Is403(k.resp) =>
                /\ k.pc = "done"
                /\ k.outcome = Raise("PermissionError", "HTTP status 403 Forbidden.")
                /\ k.nreq = k.nwait + 1
                /\ k.nreq = k.attempt_number
                /\ k.slept = 30 * k.nwait

C2_Witness ==
    \E t \in Threads :
        /\ Is403(call[t].resp)
        /\ call[t].nreq = 3
        /\ call[t].outcome.exc = "PermissionError"

\* C3: a 200 response whose parsed body is a mapping with the single key
\* `error` makes paper() and author() return the empty record.
C3_SoftNotFound ==
    \A t \in Threads :
        LET k == call[t]
        IN  (/\ k.pc = "done"
             /\ Is200(k.resp)
             /\ k.resp.body.kind = "dict"
             /\ Keys(k.resp.body.d) = {"error"}) =>
                /\ k.api \in {"paper", "author"}
                /\ k.outcome.kind = "return"
                /\ k.outcome.data.kind = "dict"
                /\ k.outcome.data.d = {}

C3_Witness ==
    \E t \in Threads :
        /\ call[t].pc = "done"
        /\ call[t].api = "author"
        /\ Is200(call[t].resp)
        /\ call[t].resp.body = JDict({<<"error", "Paper not found">>})
        /\ call[t].outcome = Return(EmptyRecord)

\* C4: a 200 response with any other parsed body that is a mapping or a list
\* (a single-key mapping whose key is not `error`, a mapping with several
\* keys, an empty mapping, a list) is returned unchanged.
C4_OtherBodyUnchanged ==
    \A t \in Threads :
        LET k == call[t]
        IN  (/\ k.pc = "done"
             /\ Is200(k.resp)
             /\ k.resp.body.kind \in {"dict", "list"}
             /\ ~(k.resp.body.kind = "dict" /\ Keys(k.resp.body.d) = {"error"})) =>
                /\ k.outcome.kind = "return"
                /\ k.outcome.data = k.resp.body

\* C5: the base URL after construction is the override when an override is
\* given (a non-empty api_url), whatever graph_api and api_key are; otherwise
\* it is the constant the table gives for (graph_api, key given).  None and
\* the empty string are "not given" for api_url and api_key alike.
C5_BaseUrlTable ==
    \A c \in Clients :
        LET a == client[c].args
            url_given == a.api_url \notin {None, ""}
            key_given == a.api_key \notin {None, ""}
        IN  client[c].constructed =>
                /\ url_given => client[c].api_url = a.api_url
                /\ (~url_given /\ ~a.graph_api /\ ~key_given) =>
                       client[c].api_url = "https://api.semanticscholar.org/v1"
                /\ (~url_given /\ a.graph_api /\ ~key_given) =>
                       client[c].api_url = "https://api.semanticscholar.org/graph/v1"
                /\ (~url_given /\ ~a.graph_api /\ key_given) =>
                       client[c].api_url = "https://partner.semanticscholar.org/v1"
                /\ (~url_given /\ a.graph_api /\ key_given) =>
                       client[c].api_url = "https://partner.semanticscholar.org/graph/v1"

C5_Witness ==
    \E c \in Clients :
        /\ client[c].constructed
        /\ client[c].args.api_url = "http://localhost:8080"
        /\ client[c].args.api_key = "key-A"
        /\ client[c].args.graph_api
        /\ client[c].api_url = "http://localhost:8080"

\* decimal text of the status codes of the model
StatusText(status) ==
    CASE status = 200 -> <<"2", "0", "0">>
      [] status = 403 -> <<"4", "0", "3">>
      [] status = 404 -> <<"4", "0", "4">>
      [] status = 429 -> <<"4", "2", "9">>
      [] status = 500 -> <<"5", "0", "0">>

\* C6: a response whose status code is a key of the loaded error map, and is
\* not 200, 403 or 429, and whose body carries an `error` field, ends the
\* lookup with SemanticScholarError whose message is that field's value; the
\* response is the last thing the lookup does (no wait, no further request).
C6_ApplicationError ==
    \A t \in Threads :
        LET k == call[t]
        IN  (/\ k.resp.kind = "response"
             /\ k.resp.status \notin {200, 403, 429}
             /\ \E e \in API_errors : e[1] = StatusText(k.resp.status)
             /\ k.resp.body.kind = "dict"
             /\ \E p \in k.resp.body.d : p[1] = "error") =>
                /\ k.pc = "done"
                /\ k.outcome.kind = "raise"
                /\ k.outcome.exc = "SemanticScholarError"
                /\ <<"error", k.outcome.msg>> \in k.resp.body.d
                /\ k.nreq = k.nwait + 1
                /\ k.nreq = k.attempt_number

C6_Witness ==
    \E t \in Threads :
        /\ call[t].pc = "done"
        /\ call[t].resp = Response(404, JDict({<<"error", "Paper not found">>}))
        /\ call[t].outcome = Raise("SemanticScholarError", "Paper not found")
        /\ call[t].nreq = 1

\* name[5:], the name without the five characters of "Error"
StripError(name) == SubSeq(name, 6, Len(name))

BeginsWithError(name) ==
    /\ Len(name) >= 5
    /\ \A i \in 1..5 : name[i] = <<"E", "r", "r", "o", "r">>[i]

\* C7: the error map has exactly one entry for each definition whose name
\* begins with `Error`, keyed by the name without that prefix and valued
\* with the definition, and no other entry.
C7_ErrorMapKeys ==
    load_state = "loaded" =>
        API_errors =
            { <<StripError(API_definitions[i][1]), API_definitions[i][2]>> :
                i \in {j \in 1..Len(API_definitions) :
                          BeginsWithError(API_definitions[j][1])} }

\* value.split(","), for a str given as a tuple of characters
RECURSIVE split_commas(_, _, _, _)
split_commas(text, i, cur, acc) ==
    IF i > Len(text) THEN Append(acc, cur)
    ELSE IF text[i] = "," THEN split_commas(text, i + 1, <<>>, Append(acc, cur))
    ELSE split_commas(text, i + 1, Append(cur, text[i]), acc)

\* C8: a request of a lookup called with a non-empty fields list carries the
\* parameter `fields` whose value, cut at its commas, is the caller's list in
\* the caller's order (for title, year it is the text title,year); a request
\* of a lookup called with an empty fields list carries no `fields`
\* parameter.
C8_FieldsParameter ==
    \A t \in Threads :
        LET k == call[t]
            has == \E p \in k.req.params : p[1] = "fields"
        IN  Sent(t) =>
                /\ k.fields = <<>> => ~has
                /\ k.fields # <<>> =>
                       /\ has
                       /\ \A p \in k.req.params :
                              p[1] = "fields" =>
                                  split_commas(p[2], 1, <<>>, <<>>) = k.fields
                /\ k.fields = <<f_title, f_year>> =>
                       <<"fields", <<"t", "i", "t", "l", "e", ",",
                                     "y", "e", "a", "r">>>> \in k.req.params

C8_Witness ==
    \E t \in Threads :
        /\ Sent(t)
        /\ call[t].api = "paper"
        /\ call[t].fields = <<f_year, f_title>>
        /\ \E p \in call[t].req.params : p[1] = "fields"

\* C9: a request carries include_unknown_references (with the value true)
\* exactly when paper() was called with include_unknown_refs true; a request
\* of author() never carries it, on any attempt.
C9_IncludeUnknownRefs ==
    \A t \in Threads :
        LET k == call[t]
            has == \E p \in k.req.params : p[1] = "include_unknown_references"
        IN  Sent(t) =>
                /\ has <=> (k.api = "paper" /\ k.include_unknown_refs)
                /\ has => <<"include_unknown_references",
                            <<"t", "r", "u", "e">>>> \in k.req.params
                /\ k.api = "author" => ~has

C9_Witness ==
    \E t \in Threads :
        /\ Sent(t)
        /\ call[t].api = "paper"
        /\ call[t].include_unknown_refs
        /\ call[t].nreq = 2
        /\ \E p \in call[t].req.params : p[1] = "include_unknown_references"

\* C10: every request, retries included, of a client constructed with an API
\* key (a non-empty api_key) carries exactly the header x-api-key with that
\* key; every request of a client constructed without one carries no header.
C10_AuthHeader ==
    \A t \in Threads :
        LET k == call[t]
            key == client[k.client].args.api_key
        IN  Sent(t) =>
                IF key \notin {None, ""}
                THEN k.req.headers = {<<"x-api-key", key>>}
                ELSE k.req.headers = {}

C10_Witness ==
    \E t \in Threads :
        /\ Sent(t)
        /\ call[t].nreq = 2
        /\ client[call[t].client].args.api_key = "key-A"
        /\ call[t].req.headers = {<<"x-api-key", "key-A">>}

\* C11: a timeout or a connection failure of the HTTP request ends the
\* lookup: the failure of the network layer is what the caller gets, and no
\* wait and no further attempt follows it, whether it hits the first attempt
\* or one made after earlier 429 responses.
C11_NetworkFailureTerminal ==
    \A t \in Threads :
        LET k == call[t]
        IN  k.resp.kind \in {"Timeout", "ConnectionError"} =>
                /\ k.pc = "done"
                /\ k.outcome.kind = "raise"
                /\ k.outcome.exc = k.resp.kind
                /\ k.nreq = k.nwait + 1
                /\ k.nreq = k.attempt_number

C11_Witness ==
    \E t \in Threads :
        /\ call[t].resp.kind = "Timeout"
        /\ call[t].nreq = 4
        /\ call[t].nwait = 3
        /\ call[t].outcome.exc = "Timeout"

\* C12: a response whose status is not 200, 403 or 429 and is no key of the
\* loaded error map makes the lookup return the empty record: no exception,
\* no wait and no further request after that response.
C12_UnhandledStatusEmpty ==
    \A t \in Threads :
        LET k == call[t]
        IN  (/\ k.resp.kind = "response"
             /\ k.resp.status \notin {200, 403, 429}
             /\ ~\E e \in API_errors : e[1] = StatusText(k.resp.status)) =>
                /\ k.pc = "done"
                /\ k.api \in {"paper", "author"}
                /\ k.outcome.kind = "return"
                /\ k.outcome.data.kind = "dict"
                /\ k.outcome.data.d = {}
                /\ k.nreq = k.nwait + 1
                /\ k.nreq = k.attempt_number

C12_Witness ==
    \E t \in Threads :
        /\ call[t].pc = "done"
        /\ call[t].resp.kind = "response"
        /\ call[t].resp.status = 404
        /\ HasDef(API_definitions, n_Error404)
        /\ call[t].nreq = 1
        /\ call[t].outcome = Return(EmptyRecord)

\* the state part of C13: a lookup has sent at most 10 requests; once a
\* response other than 429 has arrived after k 429 responses, k is at most 9,
\* the lookup is over with exactly k + 1 requests sent, and its outcome is
\* the outcome the same response produces as the answer to a first attempt
C13_Counts ==
    \A t \in Threads :
        LET k == call[t]
        IN  /\ k.nreq <= 10
            /\ k.n429 <= k.nreq
            /\ (k.resp.kind = "response" /\ k.resp.status # 429) =>
                   /\ k.n429 \in 0..9
                   /\ k.pc = "done"
                   /\ k.nreq = k.n429 + 1
                   /\ k.outcome =
                          after_attempt(interpret(k.resp, API_errors), 1).outcome

\* the step part of C13: an attempt after the first sends the request the
\* attempt before it sent: same URL, query parameters, headers and timeout
C13_SameRequest ==
    \A t \in Threads :
        (call[t].nreq >= 1 /\ call'[t].nreq = call[t].nreq + 1) =>
            /\ call'[t].req.url = call[t].req.url
            /\ call'[t].req.params = call[t].req.params
            /\ call'[t].req.headers = call[t].req.headers
            /\ call'[t].req.timeout = call[t].req.timeout

\* C13: k 429 responses (0 <= k <= 9) followed by another response give
\* exactly k + 1 requests, all identical, and the outcome the final response
\* alone produces; no lookup sends more than 10 requests.
C13_RetriesTransparent == []C13_Counts /\ [][C13_SameRequest]_vars

C13_Witness ==
    \E t \in Threads :
        /\ call[t].pc = "done"
        /\ call[t].n429 = 9
        /\ call[t].nreq = 10
        /\ call[t].resp = Response(200, JDict({<<"title", "x">>}))
        /\ call[t].outcome = Return(JDict({<<"title", "x">>}))
        /\ call[t].req.params # {}

\* C14: the decorator waits 30 seconds between two consecutive attempts and
\* nowhere else: no wait before the first attempt, none after the last one,
\* so a lookup of n attempts has waited n - 1 times (at most 9), 30 seconds
\* each time.
C14_WaitsBetweenAttempts ==
    \A t \in Threads :
        LET k == call[t]
        IN  /\ k.nwait <= 9
            /\ k.slept = 30 * k.nwait
            /\ k.pc # "idle" => k.nwait = k.attempt_number - 1
            /\ (k.pc = "done" /\ k.nreq >= 1) => k.nwait = k.nreq - 1
            /\ k.pc = "sleep" => k.nwait = k.nreq - 1
            /\ k.pc = "attempt" => k.nwait = k.nreq

C14_Witness ==
    \E t \in Threads :
        /\ call[t].pc = "done"
        /\ call[t].nreq = 10
        /\ call[t].nwait = 9
        /\ call[t].slept = 270

\* the configuration a lookup of client c reads: self.api_url,
\* self.auth_header and self.timeout
Configuration(c) ==
    [api_url |-> client[c].api_url,
     auth_header |-> self_auth_header(c),
     timeout |-> client[c].timeout]

\* C15: no step taken after a client's construction changes its base URL,
\* its authentication header or its timeout: whatever lookups run and
\* however they end, the configuration stays as the constructor set it.
C15_ConfigurationFrame ==
    [][\A c \in Clients :
          client[c].constructed =>
              /\ client'[c].constructed
              /\ Configuration(c)' = Configuration(c)
              /\ client'[c].args = client[c].args]_vars

C15_Witness ==
    \E t \in Threads :
        /\ call[t].pc = "done"
        /\ call[t].outcome.exc = "RetryError"
        /\ call[t].api = "author"
        /\ client[call[t].client].constructed
        /\ client[call[t].client].args.api_key = "key-A"
        /\ Configuration(call[t].client) =
               [api_url |-> "https://partner.semanticscholar.org/v1",
                auth_header |-> {<<"x-api-key", "key-A">>},
                timeout |-> 2]

\* the header set a client constructed with api_key is to send
HeaderOfKey(api_key) ==
    IF api_key \in {None, ""} THEN {} ELSE {<<"x-api-key", api_key>>}

\* C16: the authentication header is per instance: whatever clients have
\* been constructed before or after it, a client sends the header of its own
\* key and a client constructed without a key sends none; every request
\* sent carries the header of the client it was sent through, and the class
\* attribute stays empty.
C16_HeaderNotShared ==
    /\ cls_auth_header = {}
    /\ \A c \in Clients :
           client[c].constructed =>
               self_auth_header(c) = HeaderOfKey(client[c].args.api_key)
    /\ \A t \in Threads :
           Sent(t) =>
               call[t].req.headers =
                   HeaderOfKey(client[call[t].client].args.api_key)

C16_Witness ==
    /\ client["c1"].constructed
    /\ client["c1"].args.api_key = None
    /\ client["c2"].constructed
    /\ client["c2"].args.api_key = "key-B"
    /\ call["t1"].client = "c1"
    /\ call["t1"].pc = "attempt"
    /\ call["t1"].nreq = 2
    /\ call["t1"].req.headers = {}

\* the state part of C17: the attempt number of a lookup is one more than
\* the 429 responses that lookup itself has received and been made to wait
\* for; it ends with RetryError exactly on its own 10th 429, and any other
\* result of its own ends it with that result
C17_OwnCount ==
    \A t \in Threads :
        LET k == call[t]
        IN  /\ k.n429 <= 10
            /\ k.pc = "attempt" => k.attempt_number = k.n429 + 1
                                   /\ k.nreq = k.n429
            /\ k.pc = "sleep" => k.attempt_number = k.n429 /\ k.n429 <= 9
                                 /\ k.nreq = k.n429
            /\ k.pc = "done" =>
                   /\ k.outcome.exc = "RetryError" <=> k.n429 = 10
                   /\ k.n429 = 10 => k.nreq = 10
                   /\ k.n429 < 10 =>
                          /\ k.nreq = k.n429 + 1
                          /\ k.outcome =
                                 after_attempt(interpret(k.resp, API_errors),
                                               1).outcome

\* the step part of C17: a step of one lookup leaves every other lookup as
\* it was
C17_OthersUntouched ==
    \A t, u \in Threads :
        (t # u /\ call'[t] # call[t]) => call'[u] = call[u]

\* C17: retry state is per invocation: with two lookups interleaving on one
\* client, each counts its attempts from its own 429 responses, gets up to
\* 10 attempts, and is not affected by the steps of the other.
C17_RetryStatePerCall == []C17_OwnCount /\ [][C17_OthersUntouched]_vars

C17_Witness ==
    /\ call["t1"].client = "c1"
    /\ call["t2"].client = "c1"
    /\ call["t1"].pc = "done"
    /\ call["t1"].n429 = 10
    /\ call["t1"].outcome.exc = "RetryError"
    /\ call["t2"].pc = "sleep"
    /\ call["t2"].attempt_number = 3

\* C18: a call of the lookup primitive with a method selector other than
\* paper or author ends in its first attempt with ValueError: no request is
\* sent, no wait is made, no second attempt is started.
C18_InvalidSelector ==
    \A t \in Threads :
        LET k == call[t]
        IN  (k.pc # "idle" /\ k.method \notin {"paper", "author"}) =>
                /\ k.pc \in {"attempt", "done"}
                /\ k.attempt_number = 1
                /\ k.nreq = 0
                /\ k.nwait = 0
                /\ k.req.url = ""
                /\ k.resp.kind = "none"
                /\ k.pc = "done" =>
                       k.outcome.kind = "raise" /\ k.outcome.exc = "ValueError"

C18_Witness ==
    \E t \in Threads :
        /\ call[t].pc = "done"
        /\ call[t].method = "journal"
        /\ call[t].nreq = 0
        /\ call[t].outcome.exc = "ValueError"

====
